---- MODULE Spec2Model ----
(***************************************************************************)
(* DocuQuery (main.py): text cleaning, chunking, hit de-duplication,       *)
(* extractive answer synthesis and the routes /upload, /ask, /docs and     *)
(* /reset over the vector store.                                           *)
(*                                                                         *)
(* A Python str is a sequence of one-character strings.  An Optional       *)
(* value is a sequence: <<>> for None, <<x>> for x.                        *)
(*                                                                         *)
(* emptied is a history variable: a /reset has succeeded and no /upload    *)
(* has succeeded since.  The program does not read it.                     *)
(***************************************************************************)
EXTENDS Integers, Sequences, FiniteSets, TLC

VARIABLES
    t, cleaned, recleaned, pcClean,
    text, words, max_words, overlap, i, chunks, pcChunk,
    hits, head_len, out, pcDedupe,
    question, synHits, max_sentences, picked, syn, pcSyn,
    collection, req, resp, calls, raised, fetched, filtered, pcAsk, emptied

vars == <<t, cleaned, recleaned, pcClean,
          text, words, max_words, overlap, i, chunks, pcChunk,
          hits, head_len, out, pcDedupe,
          question, synHits, max_sentences, picked, syn, pcSyn,
          collection, req, resp, calls, raised, fetched, filtered, pcAsk, emptied>>

cleanVars == <<t, cleaned, recleaned, pcClean>>
chunkVars == <<text, words, max_words, overlap, i, chunks, pcChunk>>
dedupeVars == <<hits, head_len, out, pcDedupe>>
synVars == <<question, synHits, max_sentences, picked, syn, pcSyn>>
askVars == <<collection, req, resp, calls, raised, fetched, filtered, pcAsk, emptied>>

None == <<>>

\* no request, no response, no exception
NoReq == [question |-> <<>>, top_k |-> 0, doc_id |-> None, max_distance |-> <<>>]

NoResp == [status |-> 0]

NoError == [call |-> "", type |-> "", msg |-> ""]

CleanIdle ==
    /\ t = <<>> /\ cleaned = <<>> /\ recleaned = <<>> /\ pcClean = "idle"

ChunkIdle ==
    /\ text = <<>> /\ words = <<>> /\ max_words = 0 /\ overlap = 0 /\ i = 0
    /\ chunks = <<>> /\ pcChunk = "idle"

DedupeIdle ==
    /\ hits = <<>> /\ head_len = 0 /\ out = <<>> /\ pcDedupe = "idle"

SynIdle ==
    /\ question = <<>> /\ synHits = <<>> /\ max_sentences = 0
    /\ picked = <<>> /\ syn = [answer |-> <<>>, citations |-> <<>>]
    /\ pcSyn = "idle"

AskIdle ==
    /\ collection = <<>> /\ req = NoReq /\ resp = NoResp /\ calls = <<>>
    /\ raised = NoError /\ fetched = <<>> /\ filtered = <<>> /\ pcAsk = "idle"
    /\ emptied = FALSE

\* ------------------------------------------------------------------
\* Bounds of the model
\* ------------------------------------------------------------------
\* clean_text inputs are concatenations of at most MaxFrags fragments
MaxFrags == 4

\* chunk_text: texts of up to MaxChunkWords words, windows of up to MaxWin
\* words, overlaps of up to MaxOverlap words
MaxChunkWords == 6

MaxWin == 3

MaxOverlap == 4

\* chunk_text with the default window: texts of up to MaxLongChunks full steps
MaxLongChunks == 2

\* dedupe_hits: lists of up to MaxHits hits
MaxHits == 3

\* synthesize_answer: lists of up to MaxSynHits hits, max_sentences up to
\* MaxSentences
MaxSynHits == 2

MaxSentences == 2

\* the vector store holds up to MaxStored passages
MaxStored == 3

\* ------------------------------------------------------------------
\* Python builtins used by the code
\* ------------------------------------------------------------------
Max(a, b) == IF a >= b THEN a ELSE b

Min(a, b) == IF a <= b THEN a ELSE b

\* s[:n], negative n counting from the end
SliceTo(s, n) ==
    IF n >= 0 THEN SubSeq(s, 1, Min(n, Len(s)))
    ELSE SubSeq(s, 1, Max(0, Len(s) + n))

\* str.isspace / regex \s
IsSpace(c) == c \in {" ", "\t", "\n"}

\* regex \d
IsDigit(c) == c \in {"0", "1", "2", "3", "4", "5", "6", "7", "8", "9"}

UpperLetters ==
    <<"A", "B", "C", "D", "E", "F", "G", "H", "I", "J", "K", "L", "M",
      "N", "O", "P", "Q", "R", "S", "T", "U", "V", "W", "X", "Y", "Z">>

LowerLetters ==
    <<"a", "b", "c", "d", "e", "f", "g", "h", "i", "j", "k", "l", "m",
      "n", "o", "p", "q", "r", "s", "t", "u", "v", "w", "x", "y", "z">>

IsUpper(c) == \E k \in 1..26 : UpperLetters[k] = c

IsLower(c) == \E k \in 1..26 : LowerLetters[k] = c

\* regex \w
IsWord(c) == IsUpper(c) \/ IsLower(c) \/ IsDigit(c) \/ c = "_"

LowerChar(c) ==
    IF IsUpper(c) THEN LowerLetters[CHOOSE k \in 1..26 : UpperLetters[k] = c]
    ELSE c

\* str.lower()
Lower(s) == [k \in 1..Len(s) |-> LowerChar(s[k])]

\* the concatenation of a sequence of sequences
RECURSIVE Flatten(_)
Flatten(ps) ==
    IF Len(ps) = 0 THEN <<>>
    ELSE IF Len(ps) = 1 THEN ps[1]
    ELSE LET mid == Len(ps) \div 2
         IN Flatten(SubSeq(ps, 1, mid)) \o Flatten(SubSeq(ps, mid + 1, Len(ps)))

\* the sequences of at most n elements of S
SeqsUpTo(S, n) == UNION { [1..k -> S] : k \in 0..n }

\* str.strip()
Strip(s) ==
    IF \A k \in 1..Len(s) : IsSpace(s[k]) THEN <<>>
    ELSE LET first == CHOOSE a \in 1..Len(s) :
                          ~IsSpace(s[a]) /\ \A j \in 1..(a - 1) : IsSpace(s[j])
             last == CHOOSE b \in 1..Len(s) :
                          ~IsSpace(s[b]) /\ \A j \in (b + 1)..Len(s) : IsSpace(s[j])
         IN SubSeq(s, first, last)

\* does s hold p at index k (1-based)
HasAt(s, k, p) == k + Len(p) - 1 <= Len(s) /\ SubSeq(s, k, k + Len(p) - 1) = p

\* the maximal runs of the kept indices of s, in order (keep: 1..Len(s) -> BOOLEAN)
Runs(s, keep) ==
    Flatten([k \in 1..Len(s) |->
        IF keep[k] /\ (k = 1 \/ ~keep[k - 1])
        THEN LET e == CHOOSE e \in k..Len(s) :
                          /\ \A j \in k..e : keep[j]
                          /\ (e = Len(s) \/ ~keep[e + 1])
             IN <<SubSeq(s, k, e)>>
        ELSE <<>>])

\* ------------------------------------------------------------------
\* Text cleaning
\* ------------------------------------------------------------------
CidOpen == <<"(", "c", "i", "d", ":">>

Cid1 == <<"(", "c", "i", "d", ":", "1", ")">>

\* length of the match of _CID_RE = \(cid:\d+\) starting at index k, 0 if none
CidMatch(s, k) ==
    IF ~HasAt(s, k, CidOpen) THEN 0
    ELSE LET from == k + 5
             ends == { e \in from..Len(s) : ~IsDigit(s[e]) }
         IN IF ends = {} THEN 0
            ELSE LET e == CHOOSE e \in ends : \A j \in from..(e - 1) : IsDigit(s[j])
                 IN IF e > from /\ s[e] = ")" THEN e - k + 1 ELSE 0

\* _CID_RE.sub("", t): a match holds no "(" but its first character, so no two
\* matches overlap and every match is removed
CidSub(s) ==
    Flatten([k \in 1..Len(s) |->
        IF \E p \in 1..k : s[p] = "(" /\ CidMatch(s, p) > k - p THEN <<>>
        ELSE <<s[k]>>])

\* t.replace(" " + c, c) for a character c other than the space: occurrences
\* cannot overlap, so every one is replaced
ReplaceSpaceBefore(s, c) ==
    Flatten([k \in 1..Len(s) |->
        IF s[k] = " " /\ k < Len(s) /\ s[k + 1] = c THEN <<>> ELSE <<s[k]>>])

\* _WS_RE.sub(" ", t)
WsSub(s) ==
    Flatten([k \in 1..Len(s) |->
        IF ~IsSpace(s[k]) THEN <<s[k]>>
        ELSE IF k = 1 \/ ~IsSpace(s[k - 1]) THEN <<" ">>
        ELSE <<>>])

clean_text(s) ==
    IF s = <<>> THEN <<>>
    ELSE Strip(WsSub(ReplaceSpaceBefore(ReplaceSpaceBefore(CidSub(s), "."), ",")))

\* ------------------------------------------------------------------
\* chunk_text
\* ------------------------------------------------------------------
DefaultMaxWords == 220

DefaultOverlap == 60

\* str.split(): the maximal runs of non-whitespace characters
Split(s) == Runs(s, [k \in 1..Len(s) |-> ~IsSpace(s[k])])

\* " ".join(ws)
Join(ws) ==
    Flatten([k \in 1..Len(ws) |-> IF k = 1 THEN ws[k] ELSE <<" ">> \o ws[k]])

\* the slice with its end included
SliceInclusive(s, a, b) == SubSeq(s, Min(a, Len(s)) + 1, Min(b + 1, Len(s)))

\* words[a:b] for 0 <= a <= b
Slice(s, a, b) == SubSeq(s, Min(a, Len(s)) + 1, Min(b, Len(s)))

\* the step without its floor of 1, floored at 0
ChunkStepNoFloor(mw, ov) == Max(0, mw - ov)

\* the step with the overlap left out
ChunkStepNoOverlap(mw, ov) == Max(1, mw)

\* the step one word too far
ChunkStepTooFar(mw, ov) == Max(1, mw - ov) + 1

\* step = max(1, max_words - overlap)
ChunkStep(mw, ov) == Max(1, mw - ov)

\* list(chunk_text(s, mw, ov)): the windows that start at 0, step, 2 * step,
\* ... below len(words); none for a text without words
chunk_text(s, mw, ov) ==
    LET ws == Split(clean_text(s))
        step == ChunkStep(mw, ov)
        n == (Len(ws) + step - 1) \div step
    IN [k \in 1..n |-> Join(Slice(ws, (k - 1) * step, (k - 1) * step + mw))]

\* the k-th word of a generated text
WordAt(k) == <<LowerLetters[((k - 1) % 3) + 1]>>

\* a text of n words separated by single spaces
WordText(n) == Join([k \in 1..n |-> WordAt(k)])

MessyTexts ==
    { <<" ", "a", " ", " ", "b", "\t", "c", " ">>,
      <<"a", " ", " ", ".", " ", "b">>,
      Cid1 \o <<" ">> \o Cid1,
      <<"a", " ", ",", "b", " ", "c", ".", " ", "d">> }

ChunkTexts == { WordText(n) : n \in 0..MaxChunkWords } \cup MessyTexts

LongCounts ==
    { n \in { k * (DefaultMaxWords - DefaultOverlap) + d :
                k \in 0..MaxLongChunks, d \in {-1, 0, 1} } : n >= 0 }

InitChunk ==
    /\ \/ /\ text \in ChunkTexts
          /\ max_words \in 1..MaxWin
          /\ overlap \in 0..MaxOverlap
       \/ /\ text \in { WordText(n) : n \in LongCounts }
          /\ max_words = DefaultMaxWords
          /\ overlap = DefaultOverlap
    /\ words = <<>> /\ i = 0 /\ chunks = <<>> /\ pcChunk = "start"
    /\ CleanIdle /\ DedupeIdle /\ SynIdle /\ AskIdle

\* words = clean_text(text).split(); if not words: return;
\* step = ...; range(0, len(words), step), which raises ValueError for step 0
ChunkStart ==
    /\ pcChunk = "start"
    /\ words' = Split(clean_text(text))
    /\ pcChunk' = IF words' = <<>> THEN "done"
                  ELSE IF ChunkStep(max_words, overlap) = 0 THEN "raised"
                  ELSE "loop"
    /\ i' = 0
    /\ UNCHANGED <<text, max_words, overlap, chunks>>
    /\ UNCHANGED <<cleanVars, dedupeVars, synVars, askVars>>

\* range(0, n, step) has a next value at i
RangeHas(k, n, step) == (step > 0 /\ k < n) \/ (step < 0 /\ k > n)

\* one iteration of: for i in range(0, len(words), step): yield ...
ChunkYield ==
    /\ pcChunk = "loop"
    /\ RangeHas(i, Len(words), ChunkStep(max_words, overlap))
    /\ chunks' = Append(chunks, Join(Slice(words, i, i + max_words)))
    /\ i' = i + ChunkStep(max_words, overlap)
    /\ UNCHANGED <<text, words, max_words, overlap, pcChunk>>
    /\ UNCHANGED <<cleanVars, dedupeVars, synVars, askVars>>

\* the range is exhausted
ChunkStop ==
    /\ pcChunk = "loop"
    /\ ~RangeHas(i, Len(words), ChunkStep(max_words, overlap))
    /\ pcChunk' = "done"
    /\ UNCHANGED <<text, words, max_words, overlap, i, chunks>>
    /\ UNCHANGED <<cleanVars, dedupeVars, synVars, askVars>>

NextChunk == ChunkStart \/ ChunkYield \/ ChunkStop

SpecChunk == InitChunk /\ [][NextChunk]_vars

\* NextChunk is enabled exactly when the generator has neither returned nor raised
ChunkEnded == pcChunk \in {"done", "raised"}

\* the consumer (upload's for loop) keeps iterating the generator: weak
\* fairness of NextChunk, WF_vars(NextChunk), with ENABLED written out
FairSpecChunk == SpecChunk /\ (<>[]ChunkEnded \/ []<><<NextChunk>>_vars)

\* C5: chunk_text terminates for every text, max_words >= 1 and overlap >= 0:
\* the generator returns, never raises, and with overlap >= max_words the
\* window start advances by exactly one word per chunk.
ChunkTerminates ==
    /\ <>(pcChunk = "done")
    /\ [](pcChunk # "raised")
    /\ [][(pcChunk = "loop" /\ overlap >= max_words /\ i' # i) => i' = i + 1]_vars

\* C5 witness: a run with overlap >= max_words over several words has ended,
\* having advanced one word per chunk.
ChunkTerminatesWitness ==
    /\ pcChunk = "done"
    /\ overlap > max_words
    /\ Len(words) >= 3
    /\ Len(chunks) = Len(words)

\* C6: a text of N words yields ceil(N / step) chunks, step being
\* max(1, max_words - overlap); with the defaults 220 and 60, ceil(N / 160).
ChunkCount ==
    pcChunk = "done" =>
        LET N == Len(words)
            step == IF max_words - overlap >= 1 THEN max_words - overlap ELSE 1
        IN /\ Len(chunks) = (N + step - 1) \div step
           /\ (max_words = 220 /\ overlap = 60) => Len(chunks) = (N + 159) \div 160

\* C6 witness: the default window over more than two full steps of words.
ChunkCountWitness ==
    /\ pcChunk = "done"
    /\ max_words = 220 /\ overlap = 60
    /\ Len(words) = 321
    /\ Len(chunks) = 3

\* the number of words of a chunk
WordCount(c) == Len(Split(c))

\* C15 as stated: every chunk has at most max_words words and every chunk
\* before the last has exactly max_words words.
ChunkOnlyLastShort ==
    pcChunk = "done" =>
        \A k \in 1..Len(chunks) :
            /\ WordCount(chunks[k]) <= max_words
            /\ k < Len(chunks) => WordCount(chunks[k]) = max_words

\* C15 amended: every chunk has at least one and at most max_words words; the
\* chunk that starts at word s has min(max_words, N - s) words, so with
\* overlap = 0 the last chunk alone may be shorter than max_words.
ChunkSizes ==
    pcChunk = "done" =>
        LET N == Len(words)
            step == IF max_words - overlap >= 1 THEN max_words - overlap ELSE 1
        IN \A k \in 1..Len(chunks) :
            LET s == (k - 1) * step
                n == WordCount(chunks[k])
            IN /\ n >= 1 /\ n <= max_words
               /\ n = (IF N - s < max_words THEN N - s ELSE max_words)
               /\ (overlap = 0 /\ k < Len(chunks)) => n = max_words

\* C15 witness: with an overlap, a full chunk is followed by two chunks that
\* are shorter than max_words.
ChunkSizesWitness ==
    /\ pcChunk = "done"
    /\ overlap > 0 /\ overlap < max_words
    /\ Len(chunks) >= 3
    /\ WordCount(chunks[1]) = max_words
    /\ WordCount(chunks[Len(chunks) - 1]) < max_words
    /\ WordCount(chunks[Len(chunks)]) < WordCount(chunks[Len(chunks) - 1])

\* C16 as stated: every chunk yielded by chunk_text is a fixed point of
\* clean_text.
ChunkAlreadyClean ==
    \A k \in 1..Len(chunks) : clean_text(chunks[k]) = chunks[k]

\* C18: for 0 <= overlap < max_words, with step = max_words - overlap, the
\* window start advances by exactly step per chunk, chunk k is the window of
\* the words that starts at (k - 1) * step, the word at index j is in the
\* chunk that starts at step * floor(j / step), and the first step words of
\* every chunk but the last followed by the whole last chunk are the words.
ChunkLosesNothing ==
    /\ [][(pcChunk = "loop" /\ overlap < max_words /\ i' # i)
              => i' = i + (max_words - overlap)]_vars
    /\ []((pcChunk = "done" /\ overlap < max_words) =>
            LET N == Len(words)
                step == max_words - overlap
                cw == [k \in 1..Len(chunks) |-> Split(chunks[k])]
                K == Len(chunks)
            IN /\ \A k \in 1..K :
                     \A d \in 1..Len(cw[k]) : cw[k][d] = words[(k - 1) * step + d]
               /\ \A j \in 0..(N - 1) :
                     LET k == (j \div step) + 1
                         d == j - step * (j \div step) + 1
                     IN k <= K /\ d <= Len(cw[k]) /\ cw[k][d] = words[j + 1]
               /\ Flatten([k \in 1..K |->
                      IF k < K THEN SubSeq(cw[k], 1, step) ELSE cw[k]]) = words)

\* C18 witness: an overlapping window has covered six words in three chunks
\* or more.
ChunkLosesNothingWitness ==
    /\ pcChunk = "done"
    /\ overlap > 0 /\ overlap < max_words
    /\ Len(words) >= 6
    /\ Len(chunks) >= 3

\* ------------------------------------------------------------------
\* dedupe_hits
\* ------------------------------------------------------------------
DefaultHeadLen == 200

\* sorted(hits, key=lambda x: x["distance"]): a stable insertion of h into a
\* list sorted by distance, after every hit of no greater distance
RECURSIVE InsertByDistance(_, _)
InsertByDistance(h, hs) ==
    IF hs = <<>> THEN <<h>>
    ELSE IF Head(hs).distance <= h.distance
         THEN <<Head(hs)>> \o InsertByDistance(h, Tail(hs))
    ELSE <<h>> \o hs

RECURSIVE SortedByDistance(_)
SortedByDistance(hs) ==
    IF hs = <<>> THEN <<>>
    ELSE InsertByDistance(hs[Len(hs)], SortedByDistance(SubSeq(hs, 1, Len(hs) - 1)))

\* the hits in the order given
Unsorted(hs) == hs

\* the order in which dedupe_hits visits the hits
DedupeOrder(hs) == SortedByDistance(hs)

\* key = (h.get("page"), clean_text(h.get("snippet", ""))[:head_len])
HitKey(h, hl) == <<h.page, SliceTo(clean_text(h.snippet), hl)>>

\* the loop of dedupe_hits over the hits left, given the keys seen
RECURSIVE DedupeLoop(_, _, _)
DedupeLoop(hs, hl, seen) ==
    IF hs = <<>> THEN <<>>
    ELSE LET key == HitKey(Head(hs), hl)
         IN IF key \in seen THEN DedupeLoop(Tail(hs), hl, seen)
            ELSE <<Head(hs)>> \o DedupeLoop(Tail(hs), hl, seen \cup {key})

dedupe_hits(hs, hl) == DedupeLoop(DedupeOrder(hs), hl, {})

DedupePages == {1, 2}

DedupeDistances == {2, 5, 9}

DedupeSnippets == { <<"a", "b">>, <<"a", "c">>, <<" ", "a", "b">> }

DedupeHeadLens == {-1, 1, DefaultHeadLen}

DedupeHitSet ==
    [snippet : DedupeSnippets, doc_id : {"d1"}, title : {"d1.pdf"},
     page : DedupePages, distance : DedupeDistances]

InitDedupe ==
    /\ hits \in SeqsUpTo(DedupeHitSet, MaxHits)
    /\ head_len \in DedupeHeadLens
    /\ out = <<>> /\ pcDedupe = "input"
    /\ CleanIdle /\ ChunkIdle /\ SynIdle /\ AskIdle

CallDedupe ==
    /\ pcDedupe = "input"
    /\ out' = dedupe_hits(hits, head_len)
    /\ pcDedupe' = "returned"
    /\ UNCHANGED <<hits, head_len>>
    /\ UNCHANGED <<cleanVars, chunkVars, synVars, askVars>>

NextDedupe == CallDedupe

SpecDedupe == InitDedupe /\ [][NextDedupe]_vars

\* the key of a hit, written out from the claim
KeyOf(h) ==
    LET c == clean_text(h.snippet)
    IN <<h.page, IF head_len >= 0
                 THEN [k \in 1..(IF head_len < Len(c) THEN head_len ELSE Len(c)) |-> c[k]]
                 ELSE [k \in 1..(IF Len(c) + head_len > 0 THEN Len(c) + head_len ELSE 0) |-> c[k]]>>

\* C2: dedupe_hits returns no more hits than it was given, no two of them with
\* the same key (page, clean_text(snippet)[:head_len]), and for every key of
\* the input the one surviving hit has the least distance of that key's hits.
DedupeKeepsBest ==
    pcDedupe = "returned" =>
        /\ Len(out) <= Len(hits)
        /\ \A a, b \in 1..Len(out) : a # b => KeyOf(out[a]) # KeyOf(out[b])
        /\ \A a \in 1..Len(hits) :
               \E b \in 1..Len(out) :
                   /\ KeyOf(out[b]) = KeyOf(hits[a])
                   /\ out[b].distance <= hits[a].distance
        /\ \A b \in 1..Len(out) : \E a \in 1..Len(hits) : hits[a] = out[b]

\* C2 witness: three hits of one key and different distances, given worst
\* first, of which the best one alone survives.
DedupeKeepsBestWitness ==
    /\ pcDedupe = "returned"
    /\ Len(hits) = 3 /\ Len(out) = 1
    /\ hits[1].distance > hits[2].distance
    /\ hits[2].distance > hits[3].distance
    /\ hits[1].snippet # hits[3].snippet
    /\ out[1] = hits[3]

\* ------------------------------------------------------------------
\* split_sentences and synthesize_answer
\* ------------------------------------------------------------------
DefaultMaxSentences == 3

\* the candidates kept whatever their overlap
MinCandidates == 4

SentenceEnd == {".", "!", "?"}

\* index k of s lies in a match of _SENT_SPLIT_RE = (?<=[.!?])\s+ : in a run
\* of whitespace that starts right after a sentence end
InSplit(s, k) ==
    /\ IsSpace(s[k])
    /\ \E r \in 2..k : s[r - 1] \in SentenceEnd /\ \A j \in r..k : IsSpace(s[j])

\* the elements of ss that are not empty
NonEmpty(ss) == SelectSeq(ss, LAMBDA x : x # <<>>)

split_sentences(s) ==
    LET c == clean_text(s)
        parts == Runs(c, [k \in 1..Len(c) |-> ~InSplit(c, k)])
    IN NonEmpty([k \in 1..Len(parts) |-> Strip(parts[k])])

\* set(re.findall(r"\b\w+\b", s.lower()))
Tokens(s) ==
    LET l == Lower(s)
        runs == Runs(l, [k \in 1..Len(l) |-> IsWord(l[k])])
    IN { runs[k] : k \in 1..Len(runs) }

\* the sentences of every hit, in hit order then sentence order, each with
\* the page and title of its hit
HitSentences(hs) ==
    Flatten([k \in 1..Len(hs) |->
        LET sents == split_sentences(clean_text(hs[k].snippet))
        IN [j \in 1..Len(sents) |->
               [sent |-> sents[j], page |-> hs[k].page, title |-> hs[k].title]]])

\* a candidate kept for its overlap alone
RetainedOnOverlap(ov, cands) == ov > 0

\* if overlap > 0 or len(candidates) < 4
Retained(ov, cands) == ov > 0 \/ Len(cands) < MinCandidates

\* the loop that collects the candidates: a sentence without tokens is
\* skipped, one without overlap is kept while fewer than 4 are collected
RECURSIVE Candidates(_, _, _)
Candidates(items, q_tokens, cands) ==
    IF items = <<>> THEN cands
    ELSE LET it == Head(items)
             toks == Tokens(it.sent)
             ov == Cardinality(q_tokens \cap toks)
         IN IF toks = {} THEN Candidates(Tail(items), q_tokens, cands)
            ELSE IF Retained(ov, cands)
                 THEN Candidates(Tail(items), q_tokens,
                          Append(cands, [overlap |-> ov, ntoks |-> Cardinality(toks),
                                         sent |-> it.sent, page |-> it.page,
                                         title |-> it.title]))
            ELSE Candidates(Tail(items), q_tokens, cands)

\* the comparison of an ascending sort
ScoreLess(x, y) == x.overlap * (1 + y.ntoks) < y.overlap * (1 + x.ntoks)

\* score x > score y, the score being overlap / (1 + ntoks)
ScoreGreater(x, y) == x.overlap * (1 + y.ntoks) > y.overlap * (1 + x.ntoks)

\* an insertion that puts c before the candidates of equal score
RECURSIVE InsertBeforeEqual(_, _)
InsertBeforeEqual(c, cs) ==
    IF cs = <<>> THEN <<c>>
    ELSE IF Head(cs).overlap * (1 + c.ntoks) > c.overlap * (1 + Head(cs).ntoks)
         THEN <<Head(cs)>> \o InsertBeforeEqual(c, Tail(cs))
    ELSE <<c>> \o cs

\* candidates.sort(key=score, reverse=True): stable, so c goes after every
\* candidate of no smaller score
RECURSIVE InsertByScore(_, _)
InsertByScore(c, cs) ==
    IF cs = <<>> THEN <<c>>
    ELSE IF ScoreGreater(c, Head(cs)) THEN <<c>> \o cs
    ELSE <<Head(cs)>> \o InsertByScore(c, Tail(cs))

RECURSIVE SortedByScore(_)
SortedByScore(cs) ==
    IF cs = <<>> THEN <<>>
    ELSE InsertByScore(cs[Len(cs)], SortedByScore(SubSeq(cs, 1, Len(cs) - 1)))

\* the sentence as it is
SameCase(sent) == sent

\* norm = sent.lower()
Norm(sent) == Lower(sent)

\* the check placed before the append
BreakAbove(p, ms) == Len(p) > ms

\* if len(picked) >= max_sentences: break
BreakAt(p, ms) == Len(p) >= ms

\* the loop that picks the sentences
RECURSIVE PickLoop(_, _, _, _)
PickLoop(cs, p, seen, ms) ==
    IF cs = <<>> THEN p
    ELSE LET c == Head(cs)
             norm == Norm(c.sent)
         IN IF norm \in seen THEN PickLoop(Tail(cs), p, seen, ms)
            ELSE LET p2 == Append(p, [sent |-> c.sent, page |-> c.page, title |-> c.title])
                 IN IF BreakAt(p2, ms) THEN p2
                    ELSE PickLoop(Tail(cs), p2, seen \cup {norm}, ms)

\* picked, as it is when synthesize_answer builds its answer (hs not empty)
Picked(q, hs, ms) ==
    LET cands == SortedByScore(Candidates(HitSentences(hs), Tokens(q), <<>>))
        p == PickLoop(cands, <<>>, {}, ms)
    IN IF p = <<>>
       THEN <<[sent |-> clean_text(hs[1].snippet), page |-> hs[1].page,
               title |-> hs[1].title]>>
       ELSE p

\* every citation taken from the first picked sentence
AnswerCitingFirst(p) ==
    [answer |-> Join([k \in 1..Len(p) |-> p[k].sent]),
     citations |-> [k \in 1..Len(p) |-> [page |-> p[1].page, title |-> p[1].title]]]

\* the answer and the citations of the picked sentences
Answer(p) ==
    [answer |-> Join([k \in 1..Len(p) |-> p[k].sent]),
     citations |-> [k \in 1..Len(p) |-> [page |-> p[k].page, title |-> p[k].title]]]

synthesize_answer(q, hs, ms) ==
    IF hs = <<>> THEN [answer |-> <<>>, citations |-> <<>>]
    ELSE Answer(Picked(q, hs, ms))

Q1 == <<"a", " ", "b", "?">>

Q2 == <<"W", "h", "y", " ", "c">>

SN1 == <<"A", " ", "b", ".", " ", "c", " ", "d", ".">>

SN2 == <<"a", " ", "b", ".", " ", "A", " ", "B", ".", " ", " ", "e">>

SN3 == <<"c", ".", " ", "d", " ", "e", "?", " ", "f">>

SN4 == <<"g", ".", " ", "h", ".", " ", "i", ".", " ", "j", ",", " ", "k", ".">>

SN5 == <<"?", "!">>

SynQuestions == { Q1, Q2 }

SynSnippets == { SN1, SN2, SN3, SN4, SN5, <<>> }

SynPages == {3, 7}

SynHitSet ==
    [snippet : SynSnippets, doc_id : {"d1"}, title : {"d1.pdf"},
     page : SynPages, distance : {2}]

InitSyn ==
    /\ question \in SynQuestions
    /\ synHits \in SeqsUpTo(SynHitSet, MaxSynHits)
    /\ max_sentences \in (-1)..MaxSentences
    /\ picked = <<>> /\ syn = [answer |-> <<>>, citations |-> <<>>]
    /\ pcSyn = "input"
    /\ CleanIdle /\ ChunkIdle /\ DedupeIdle /\ AskIdle

CallSynthesize ==
    /\ pcSyn = "input"
    /\ picked' = IF synHits = <<>> THEN <<>>
                 ELSE Picked(question, synHits, max_sentences)
    /\ syn' = synthesize_answer(question, synHits, max_sentences)
    /\ pcSyn' = "returned"
    /\ UNCHANGED <<question, synHits, max_sentences>>
    /\ UNCHANGED <<cleanVars, chunkVars, dedupeVars, askVars>>

NextSyn == CallSynthesize

SpecSyn == InitSyn /\ [][NextSyn]_vars

\* C3 as stated: synthesize_answer returns at most max_sentences citations,
\* built from at most max_sentences sentences, for every integer
\* max_sentences, 0 included.
SynAtMostMaxSentences ==
    pcSyn = "returned" =>
        /\ Len(syn.citations) <= max_sentences
        /\ Len(picked) <= max_sentences

\* C3 amended: synthesize_answer returns at most max(1, max_sentences)
\* citations, one per picked sentence, and none for an empty hit list.
SynAtMostMaxSentencesOrOne ==
    pcSyn = "returned" =>
        /\ Len(syn.citations) <= (IF max_sentences >= 1 THEN max_sentences ELSE 1)
        /\ Len(syn.citations) = Len(picked)
        /\ synHits = <<>> => syn.citations = <<>>

\* C3 witness: a hit with five sentences and max_sentences = 2 gives two
\* citations.
SynAtMostWitness ==
    /\ pcSyn = "returned"
    /\ max_sentences = 2
    /\ Len(synHits) >= 1 /\ synHits[1].snippet = SN4
    /\ Len(syn.citations) = 2

\* C4: no two sentences picked into one answer are equal when compared
\* without regard to case.
SynDistinctSentences ==
    pcSyn = "returned" =>
        \A a, b \in 1..Len(picked) :
            a # b => Lower(picked[a].sent) # Lower(picked[b].sent)

\* C4 witness: two hits hold the same sentence in three capitalisations; two
\* sentences are picked.
SynDistinctWitness ==
    /\ pcSyn = "returned"
    /\ question = Q1
    /\ Len(synHits) = 2
    /\ synHits[1].snippet = SN1 /\ synHits[2].snippet = SN2
    /\ max_sentences = 2
    /\ Len(picked) = 2

\* candidates for question q and hits hs
SynCandidatesOf(q, hs) == Candidates(HitSentences(hs), Tokens(q), <<>>)

\* candidates, as the loop over the hits leaves it (before the sort)
SynCandidates == SynCandidatesOf(question, synHits)

\* picked, as the loop over the sorted candidates leaves it (before the
\* fallback)
SynSelected == PickLoop(SortedByScore(SynCandidates), <<>>, {}, max_sentences)

\* the overlap of sentence s with the question, and its number of tokens; the
\* score of s is overlap / (1 + tokens)
OverlapOf(s) == Cardinality(Tokens(question) \cap Tokens(s))

TokenCount(s) == Cardinality(Tokens(s))

\* C13: the selected sentences are candidates (each the first of its like in
\* encounter order) taken in order of non-increasing score, those of equal
\* score in encounter order, and every candidate that is distinct from the
\* selected ones comes after each of them in that order: none has a higher
\* score than a selected one.
SynPicksByScore ==
    (pcSyn = "returned" /\ synHits # <<>>) =>
        \A cs \in {SynCandidates}, sel \in {SynSelected} :
        \A ov \in {[k \in 1..Len(cs) |-> OverlapOf(cs[k].sent)]},
           nt \in {[k \in 1..Len(cs) |-> TokenCount(cs[k].sent)]} :
            LET n == Len(sel)
                After(x, y) == \/ ov[x] * (1 + nt[y]) > ov[y] * (1 + nt[x])
                               \/ /\ ov[x] * (1 + nt[y]) = ov[y] * (1 + nt[x])
                                  /\ x < y
                Same(a) == { k \in 1..Len(cs) : /\ cs[k].sent = sel[a].sent
                                                 /\ cs[k].page = sel[a].page
                                                 /\ cs[k].title = sel[a].title }
                f == [a \in 1..n |-> CHOOSE k \in Same(a) : \A j \in Same(a) : k <= j]
            IN /\ sel # <<>> => picked = sel
               /\ \A a \in 1..n : Same(a) # {}
               /\ \A a, b \in 1..n : a < b => After(f[a], f[b])
               /\ \A k \in 1..Len(cs) :
                     (\A a \in 1..n : Lower(cs[k].sent) # Lower(sel[a].sent))
                         => \A a \in 1..n : After(f[a], k)

\* C13 witness: two sentences of equal score are selected in encounter order
\* and a third candidate of that score is left out.
SynPicksByScoreWitness ==
    /\ pcSyn = "returned"
    /\ question = Q2
    /\ Len(synHits) = 1 /\ synHits[1].snippet = SN4
    /\ max_sentences = 2
    /\ Len(SynCandidates) = 4
    /\ Len(picked) = 2
    /\ picked[1].sent = <<"g", ".">> /\ picked[2].sent = <<"h", ".">>

\* the fallback unit: the normalized snippet of the first hit
FirstSnippet ==
    <<[sent |-> clean_text(synHits[1].snippet), page |-> synHits[1].page,
       title |-> synHits[1].title]>>

WarrantyQuestion ==
    <<"H", "o", "w", " ", "l", "o", "n", "g", " ", "i", "s", " ",
      "t", "h", "e", " ", "w", "a", "r", "r", "a", "n", "t", "y",
      "?">>

WarrantySentence ==
    <<"T", "h", "e", " ", "w", "a", "r", "r", "a", "n", "t", "y",
      " ", "p", "e", "r", "i", "o", "d", " ", "i", "s", " ", "2",
      "4", " ", "m", "o", "n", "t", "h", "s", ".">>

WarrantyOnly == WarrantySentence

\* "Contact support for RMA requests. The warranty period is 24 months."
WarrantyAfterOther ==
    <<"C", "o", "n", "t", "a", "c", "t", " ", "s", "u", "p", "p",
      "o", "r", "t", " ", "f", "o", "r", " ", "R", "M", "A", " ",
      "r", "e", "q", "u", "e", "s", "t", "s", ".", " ", "T", "h",
      "e", " ", "w", "a", "r", "r", "a", "n", "t", "y", " ", "p",
      "e", "r", "i", "o", "d", " ", "i", "s", " ", "2", "4", " ",
      "m", "o", "n", "t", "h", "s", ".">>

\* "the warranty period is 24 months."
WarrantyLowerCase ==
    <<"t", "h", "e", " ", "w", "a", "r", "r", "a", "n", "t", "y",
      " ", "p", "e", "r", "i", "o", "d", " ", "i", "s", " ", "2",
      "4", " ", "m", "o", "n", "t", "h", "s", ".">>

\* "The warranty. How long? Is the warranty long?"
ShortSentences ==
    <<"T", "h", "e", " ", "w", "a", "r", "r", "a", "n", "t", "y",
      ".", " ", "H", "o", "w", " ", "l", "o", "n", "g", "?", " ",
      "I", "s", " ", "t", "h", "e", " ", "w", "a", "r", "r", "a",
      "n", "t", "y", " ", "l", "o", "n", "g", "?">>

\* "Keep the receipt. Call us. Ask support."
WeakSentences ==
    <<"K", "e", "e", "p", " ", "t", "h", "e", " ", "r", "e", "c",
      "e", "i", "p", "t", ".", " ", "C", "a", "l", "l", " ", "u",
      "s", ".", " ", "A", "s", "k", " ", "s", "u", "p", "p", "o",
      "r", "t", ".">>

WarrantySnippets ==
    { WarrantyOnly, WarrantyAfterOther, WarrantyLowerCase, ShortSentences,
      WeakSentences }

WarrantyHitSet ==
    [snippet : WarrantySnippets, doc_id : {"d1"}, title : {"d1.pdf"},
     page : SynPages, distance : {2}]

InitWarranty ==
    /\ question = WarrantyQuestion
    /\ synHits \in SeqsUpTo(WarrantyHitSet, MaxSynHits)
    /\ max_sentences = DefaultMaxSentences
    /\ picked = <<>> /\ syn = [answer |-> <<>>, citations |-> <<>>]
    /\ pcSyn = "input"
    /\ CleanIdle /\ ChunkIdle /\ DedupeIdle /\ AskIdle

SpecWarranty == InitWarranty /\ [][NextSyn]_vars

\* the sentences of the snippet of hit h
SentencesOf(h) ==
    LET ss == split_sentences(clean_text(h.snippet))
    IN { ss[k] : k \in 1..Len(ss) }

\* hit h is on page 3 and its snippet contains the warranty sentence
WarrantyHit(h) == h.page = 3 /\ WarrantySentence \in SentencesOf(h)

\* s occurs in a as a substring
Contains(a, s) == \E k \in 1..Len(a) : HasAt(a, k, s)

\* the answer contains the warranty sentence and the citation of that
\* sentence has page 3
WarrantyAnswered ==
    /\ Contains(syn.answer, WarrantySentence)
    /\ \E a \in 1..Len(picked) :
          /\ picked[a].sent = WarrantySentence
          /\ syn.citations[a].page = 3

\* the score of sentence s is at least that of the warranty sentence, 3/7
ScoresAsWarranty(s) ==
    LET toks == Tokens(s)
        ov == Cardinality(Tokens(question) \cap toks)
    IN toks # {} /\ 7 * ov >= 3 * (1 + Cardinality(toks))

\* the other sentences of the hits, compared without regard to case, that
\* score at least as high as the warranty sentence
WarrantyRivals ==
    { Lower(s) : s \in { x \in UNION { SentencesOf(synHits[k]) : k \in 1..Len(synHits) } :
                           /\ Lower(x) # Lower(WarrantySentence)
                           /\ ScoresAsWarranty(x) } }

\* C12 as stated: with max_sentences = 3 and the warranty question, whenever
\* a hit on page 3 contains the warranty sentence, whatever else the hits
\* hold, the answer contains the sentence and a citation has page 3.
WarrantyAlwaysAnswered ==
    (/\ pcSyn = "returned"
     /\ question = WarrantyQuestion /\ max_sentences = 3
     /\ \E k \in 1..Len(synHits) : WarrantyHit(synHits[k]))
    => /\ Contains(syn.answer, WarrantySentence)
       /\ \E a \in 1..Len(syn.citations) : syn.citations[a].page = 3

\* C12 amended: the same holds when every occurrence of the sentence in the
\* hits, compared without regard to case, is the exact sentence on a page-3
\* hit and fewer than three distinct other sentences score 3/7 or more.
WarrantyAnsweredUnlessOutscored ==
    (/\ pcSyn = "returned"
     /\ question = WarrantyQuestion /\ max_sentences = 3
     /\ \E k \in 1..Len(synHits) : WarrantyHit(synHits[k])
     /\ \A k \in 1..Len(synHits) : \A s \in SentencesOf(synHits[k]) :
           Lower(s) = Lower(WarrantySentence)
               => s = WarrantySentence /\ synHits[k].page = 3
     /\ Cardinality(WarrantyRivals) < 3)
    => WarrantyAnswered

\* C12 witness: the sentence is picked first, from the second hit on page 3,
\* ahead of four sentences of a lower score, two of which fill the answer.
WarrantyAnsweredWitness ==
    /\ pcSyn = "returned"
    /\ question = WarrantyQuestion /\ max_sentences = 3
    /\ Len(synHits) = 2
    /\ synHits[1].snippet = WeakSentences /\ synHits[1].page = 7
    /\ synHits[2].snippet = WarrantyAfterOther /\ synHits[2].page = 3
    /\ WarrantyRivals = {}
    /\ Len(picked) = 3
    /\ picked[1].sent = WarrantySentence
    /\ WarrantyAnswered

\* ------------------------------------------------------------------
\* The /ask route
\* ------------------------------------------------------------------
\* the least number of neighbours asked of the store
MinFetch == 10

\* snippet display length
SnippetLen == 800

\* the permutations of 1..n
Perms(n) == { p \in [1..n -> 1..n] : \A a, b \in 1..n : a # b => p[a] # p[b] }

\* the nondecreasing sequences of n elements of D
NonDecreasing(D, n) ==
    { d \in [1..n -> D] : \A a \in 1..n : \A b \in a..n : d[a] <= d[b] }

\* where = {"doc_id": req.doc_id} if req.doc_id else None
Where(doc_id) == IF doc_id = None \/ doc_id = << <<>> >> THEN <<>> ELSE doc_id

\* the stored passages a query with this where clause ranges over
Matching(coll, where) ==
    SelectSeq(coll, LAMBDA p : where = <<>> \/ p.doc_id = where[1])

\* col.query(query_embeddings, n_results, where): what the store may return,
\* n nearest matching passages in ascending distance, the distances being
\* the embedding model's and the store's affair
QueryResults(coll, n, where, D) ==
    LET m == Matching(coll, where)
        cnt == Min(n, Len(m))
    IN { [k \in 1..cnt |-> [doc |-> m[p[k]].text,
                            meta |-> [doc_id |-> m[p[k]].doc_id,
                                      title |-> m[p[k]].title,
                                      page |-> m[p[k]].page],
                            dist |-> d[k]]] :
           p \in Perms(Len(m)), d \in NonDecreasing(D, cnt) }

\* the hits built from the rows of a query result
BuildHits(raw) ==
    [k \in 1..Len(raw) |->
        [snippet |-> SliceTo(clean_text(raw[k].doc), SnippetLen),
         doc_id |-> raw[k].meta.doc_id,
         title |-> raw[k].meta.title,
         page |-> raw[k].meta.page,
         distance |-> raw[k].dist]]

\* the threshold applied whenever req.max_distance is truthy
DistanceFilterIfTruthy(hs, md) ==
    IF md = <<>> \/ md = <<0>> THEN hs
    ELSE SelectSeq(hs, LAMBDA h : h.distance <= md[1])

\* if req.max_distance is not None: hits = [h for h in hits if h["distance"] <= ...]
DistanceFilter(hs, md) ==
    IF md = <<>> THEN hs
    ELSE SelectSeq(hs, LAMBDA h : h.distance <= md[1])

\* a truncation that keeps at least one hit
TopKAtLeastOne(hs, k) == SliceTo(dedupe_hits(hs, DefaultHeadLen), Max(1, k))

\* dedupe_hits(hits)[:req.top_k]
TopK(hs, k) == SliceTo(dedupe_hits(hs, DefaultHeadLen), k)

\* the body returned by ask
AskBody(q, hs) ==
    LET s == synthesize_answer(q, hs, DefaultMaxSentences)
    IN [status |-> 200,
        body |-> [question |-> q, answer |-> s.answer,
                  citations |-> s.citations, results |-> hs]]

\* an empty answer in place of the failure
AskFailureMasked(e) ==
    [status |-> 200,
     body |-> [question |-> <<>>, answer |-> <<>>, citations |-> <<>>, results |-> <<>>]]

\* except Exception as e: raise HTTPException(500, f"ask failed: {type(e).__name__}: {e}")
AskFailure(e) ==
    [status |-> 500, detail |-> [prefix |-> "ask failed", type |-> e.type, msg |-> e.msg]]

\* ------------------------------------------------------------------
\* Uploaded files and collaborators
\* ------------------------------------------------------------------
STORAGE_DIR == <<".", "/", "s", "t", "o", "r", "a", "g", "e">>

\* analyze_pdf: min_chars, the pages of the preview, the preview snippet length
MinChars == 80

PreviewPages == 5

PreviewLen == 160

\* col.get(limit=2000)
GetLimit == 2000

\* the characters of the modelled names, in code point order
CodeOrder ==
    <<".", "0", "1", "2", "3", "4", "5", "6", "7", "8", "9">>
        \o UpperLetters \o <<"_">> \o LowerLetters

Code(c) == CHOOSE k \in 1..Len(CodeOrder) : CodeOrder[k] = c

\* a < b for str a and b
StrLess(a, b) ==
    \E k \in 1..(Len(b)) :
        /\ k - 1 <= Len(a)
        /\ SubSeq(a, 1, k - 1) = SubSeq(b, 1, k - 1)
        /\ (k > Len(a) \/ Code(a[k]) < Code(b[k]))

\* sorted(S) for a set of str
SortedStrs(S) ==
    [k \in 1..Cardinality(S) |->
        CHOOSE x \in S : Cardinality({ y \in S : StrLess(y, x) }) = k - 1]

\* s.endswith(suffix)
EndsWith(s, suffix) ==
    Len(suffix) <= Len(s) /\ SubSeq(s, Len(s) - Len(suffix) + 1, Len(s)) = suffix

\* the last index of character c in s, 0 when there is none (str.rfind + 1)
RFind(s, c) ==
    IF \E k \in 1..Len(s) : s[k] = c
    THEN CHOOSE k \in 1..Len(s) : s[k] = c /\ \A j \in (k + 1)..Len(s) : s[j] # c
    ELSE 0

\* os.path.splitext(p)[0]: p up to its last dot, when that dot follows the
\* last separator and a character of the name that is not a dot
SplitExt(p) ==
    LET sep == RFind(p, "/")
        dot == RFind(p, ".")
    IN IF dot > sep /\ \E k \in (sep + 1)..(dot - 1) : p[k] # "."
       THEN SubSeq(p, 1, dot - 1)
       ELSE p

\* os.path.join(STORAGE_DIR, filename)
DestPath(filename) ==
    IF Len(filename) >= 1 /\ filename[1] = "/" THEN filename
    ELSE STORAGE_DIR \o <<"/">> \o filename

\* file.filename.lower().endswith(".pdf")
IsPdf(filename) == EndsWith(Lower(filename), <<".", "p", "d", "f">>)

\* page.extract_text() or ""
PageText(page) == IF page = None THEN <<>> ELSE page[1]

Doc1 == <<"A", " ", "b", ".", " ", "c", " ", "d", ".">>

Doc2 == <<"a", " ", "b", " ", " ", ".", " ", "e", ".">>

Doc3 == <<"f", " ", "g", ".">>

\* an upload: the file name and what extract_text returns for each page
PdfOne ==
    [filename |-> <<"d", "1", ".", "p", "d", "f">>,
     pages |-> << <<Doc1>>, None, <<Doc2>> >>]

PdfTwo ==
    [filename |-> <<"d", "2", ".", "P", "D", "F">>,
     pages |-> << <<Doc3>> >>]

PdfMarks ==
    [filename |-> <<"m", ".", "p", "d", "f">>,
     pages |-> << <<>>, << <<"?", "!">> >> >>]

PdfBlank ==
    [filename |-> <<"e", ".", "p", "d", "f">>,
     pages |-> << << <<" ", "\t">> >>, None, <<Cid1>> >>]

NotPdf ==
    [filename |-> <<"n", ".", "t", "x", "t">>,
     pages |-> << <<Doc3>> >>]

\* a first page of one word more than a step of the default window
PdfLong ==
    [filename |-> <<"l", ".", "p", "d", "f">>,
     pages |-> << <<WordText(DefaultMaxWords - DefaultOverlap + 1)>>, None,
                  <<Doc3>> >>]

UploadFiles == { PdfOne, PdfTwo, PdfMarks, PdfBlank, NotPdf }

LongUploadFiles == { PdfOne, PdfTwo, PdfBlank, NotPdf, PdfLong }

\* distances, in tenths
Distances == {2, 5, 9}

AskRequests ==
    [question : {Q1}, top_k : {-1, 0, 1, 5},
     doc_id : {None, <<SplitExt(PdfOne.filename)>>},
     max_distance : {<<>>, <<0>>, <<6>>}]

StoreErrors == { [type |-> "ValueError", msg |-> "store unavailable"] }

EmbedErrors == { [type |-> "RuntimeError", msg |-> "model unavailable"] }

FileErrors == { [type |-> "OSError", msg |-> "No space left on device"] }

PdfErrors == { [type |-> "PDFSyntaxError", msg |-> "No /Root object"] }

\* the store of a fresh installation
Init ==
    /\ collection = <<>>
    /\ req = NoReq /\ resp = NoResp /\ calls = <<>> /\ raised = NoError
    /\ fetched = <<>> /\ filtered = <<>> /\ pcAsk = "idle"
    /\ emptied = FALSE
    /\ CleanIdle /\ ChunkIdle /\ DedupeIdle /\ SynIdle

\* get_collection when it returns: the collection as it is, or, after a
\* KeyError, a store reset and the collection created anew
Collections(coll) ==
    { [coll |-> coll, calls |-> <<"get_or_create_collection">>],
      [coll |-> <<>>, calls |-> <<"get_or_create_collection", "reset",
                                  "get_or_create_collection">>] }

\* ------------------------------------------------------------------
\* The /upload route
\* ------------------------------------------------------------------
\* analyze_pdf(dest_path)
analyze_pdf(pages) ==
    LET per_page == [k \in 1..Len(pages) |->
                        LET txt == clean_text(PageText(pages[k]))
                        IN [page |-> k, chars |-> Len(txt),
                            snippet |-> SliceTo(txt, PreviewLen)]]
    IN [pages_total |-> Len(per_page),
        pages_with_text |->
            Cardinality({ k \in 1..Len(per_page) : per_page[k].chars >= MinChars }),
        flagged_pages |->
            SelectSeq([k \in 1..Len(pages) |-> k],
                      LAMBDA k : per_page[k].chars < MinChars),
        preview |-> SliceTo(per_page, PreviewPages)]

\* the first chunk of every page alone
UploadFirstChunks(f) ==
    Flatten([n \in 1..Len(f.pages) |->
        LET txt == clean_text(PageText(f.pages[n]))
            cs == chunk_text(txt, DefaultMaxWords, DefaultOverlap)
        IN IF txt = <<>> THEN <<>>
           ELSE <<[doc_id |-> SplitExt(f.filename), title |-> f.filename,
                   page |-> n, text |-> cs[1]]>>])

\* pages, as the loop over pdf.pages leaves it: the chunks of every page that
\* has text, with doc_id, title and page
UploadPassages(f) ==
    Flatten([n \in 1..Len(f.pages) |->
        LET txt == clean_text(PageText(f.pages[n]))
            cs == chunk_text(txt, DefaultMaxWords, DefaultOverlap)
        IN IF txt = <<>> THEN <<>>
           ELSE [j \in 1..Len(cs) |->
                    [doc_id |-> SplitExt(f.filename), title |-> f.filename,
                     page |-> n, text |-> cs[j]]]])

\* raise HTTPException(status_code=400, detail="Only PDF files are supported.")
NotPdfFailure ==
    [status |-> 400,
     detail |-> [prefix |-> "Only PDF files are supported.", type |-> "", msg |-> ""]]

\* the missing text reported as a failure of the server
NoTextAsServerError ==
    [status |-> 500,
     detail |-> [prefix |-> "upload failed", type |-> "HTTPException",
                 msg |-> "No extractable text found; PDF may be image-only (OCR required)."]]

\* raise HTTPException(status_code=400, detail="No extractable text found; ...")
\* which except HTTPException: raise lets through
NoTextFailure ==
    [status |-> 400,
     detail |-> [prefix |-> "No extractable text found; PDF may be image-only (OCR required).",
                 type |-> "", msg |-> ""]]

\* except Exception as e: raise HTTPException(500, f"upload failed: {type(e).__name__}: {e}")
UploadFailure(e) ==
    [status |-> 500, detail |-> [prefix |-> "upload failed", type |-> e.type, msg |-> e.msg]]

\* the body of a successful upload
UploadBody(f, docs) ==
    LET report == analyze_pdf(f.pages)
    IN [status |-> 200,
        body |-> [ok |-> TRUE, saved_as |-> DestPath(f.filename),
                  pages_total |-> report.pages_total,
                  pages_with_text |-> report.pages_with_text,
                  flagged_pages |-> report.flagged_pages,
                  preview |-> report.preview,
                  indexed_chunks |-> Len(docs)]]

\* the file name does not end in .pdf
UploadNotPdf(f) ==
    /\ ~IsPdf(f.filename)
    /\ calls' = <<>> /\ raised' = NoError
    /\ resp' = NotPdfFailure
    /\ UNCHANGED <<collection, emptied>>

\* writing the file to STORAGE_DIR raises
UploadWriteFails(f) ==
    /\ IsPdf(f.filename)
    /\ \E e \in FileErrors :
        /\ calls' = <<"open">>
        /\ raised' = [call |-> "open", type |-> e.type, msg |-> e.msg]
        /\ resp' = UploadFailure(e)
    /\ UNCHANGED <<collection, emptied>>

\* pdfplumber cannot read the file
UploadPdfFails(f) ==
    /\ IsPdf(f.filename)
    /\ \E e \in PdfErrors :
        /\ calls' = <<"open", "pdfplumber.open">>
        /\ raised' = [call |-> "pdfplumber.open", type |-> e.type, msg |-> e.msg]
        /\ resp' = UploadFailure(e)
    /\ UNCHANGED <<collection, emptied>>

\* if not pages: raise HTTPException(400, ...), before get_collection
UploadNoText(f) ==
    /\ IsPdf(f.filename)
    /\ UploadPassages(f) = <<>>
    /\ calls' = <<"open", "pdfplumber.open", "pdfplumber.open">>
    /\ raised' = NoError
    /\ resp' = NoTextFailure
    /\ UNCHANGED <<collection, emptied>>

\* get_collection raises
UploadCollectionFails(f) ==
    /\ IsPdf(f.filename)
    /\ UploadPassages(f) # <<>>
    /\ \E e \in StoreErrors :
        /\ calls' = <<"open", "pdfplumber.open", "pdfplumber.open",
                      "get_or_create_collection">>
        /\ raised' = [call |-> "get_or_create_collection", type |-> e.type, msg |-> e.msg]
        /\ resp' = UploadFailure(e)
    /\ UNCHANGED <<collection, emptied>>

\* col.add raises and adds nothing; a reset made by get_collection stays made
UploadAddFails(f) ==
    /\ IsPdf(f.filename)
    /\ UploadPassages(f) # <<>>
    /\ \E c \in Collections(collection), e \in StoreErrors :
        /\ calls' = <<"open", "pdfplumber.open", "pdfplumber.open">> \o c.calls \o <<"add">>
        /\ raised' = [call |-> "add", type |-> e.type, msg |-> e.msg]
        /\ resp' = UploadFailure(e)
        /\ collection' = c.coll
    /\ UNCHANGED emptied

\* col.add(ids, documents, metadatas): every id is new (uuid4), the passages
\* are stored in the order given; the store holds at most MaxStored passages
UploadAdds(f) ==
    /\ IsPdf(f.filename)
    /\ UploadPassages(f) # <<>>
    /\ \E c \in Collections(collection) :
        /\ Len(c.coll) + Len(UploadPassages(f)) <= MaxStored
        /\ calls' = <<"open", "pdfplumber.open", "pdfplumber.open">> \o c.calls \o <<"add">>
        /\ raised' = NoError
        /\ collection' = c.coll \o UploadPassages(f)
        /\ resp' = UploadBody(f, UploadPassages(f))
    /\ emptied' = FALSE

\* POST /upload of one of files
UploadOf(files) ==
    /\ pcAsk = "idle"
    /\ \E f \in files :
        /\ req' = f
        /\ \/ UploadNotPdf(f)
           \/ UploadWriteFails(f)
           \/ UploadPdfFails(f)
           \/ UploadNoText(f)
           \/ UploadCollectionFails(f)
           \/ UploadAddFails(f)
           \/ UploadAdds(f)
    /\ pcAsk' = "uploaded"
    /\ fetched' = <<>> /\ filtered' = <<>>
    /\ UNCHANGED <<cleanVars, chunkVars, dedupeVars, synVars>>

\* ------------------------------------------------------------------
\* The /docs and /reset routes
\* ------------------------------------------------------------------
\* the handler installed for every exception a route lets out
UnhandledFailure(e) ==
    [status |-> 500, detail |-> [prefix |-> "", type |-> e.type, msg |-> e.msg]]

\* the documents of list_docs: the chunks counted per doc_id over the first
\* 2000 metadatas, sorted by doc_id
Documents(coll) ==
    LET metas == SliceTo(coll, GetLimit)
        ids == { metas[k].doc_id : k \in { j \in 1..Len(metas) : metas[j].doc_id # <<>> } }
        keys == SortedStrs(ids)
    IN [k \in 1..Len(keys) |->
           [doc_id |-> keys[k],
            chunks |-> Cardinality({ j \in 1..Len(metas) : metas[j].doc_id = keys[k] })]]

\* GET /docs
ListDocs ==
    /\ pcAsk = "idle"
    /\ req' = NoReq
    /\ \/ \E c \in Collections(collection) :
            /\ calls' = c.calls \o <<"get">>
            /\ raised' = NoError
            /\ collection' = c.coll
            /\ resp' = [status |-> 200, body |-> [documents |-> Documents(c.coll)]]
       \/ \E c \in Collections(collection), e \in StoreErrors :
            /\ calls' = c.calls \o <<"get">>
            /\ raised' = [call |-> "get", type |-> e.type, msg |-> e.msg]
            /\ collection' = c.coll
            /\ resp' = UnhandledFailure(e)
       \/ \E e \in StoreErrors :
            /\ calls' = <<"get_or_create_collection">>
            /\ raised' = [call |-> "get_or_create_collection", type |-> e.type, msg |-> e.msg]
            /\ UNCHANGED collection
            /\ resp' = UnhandledFailure(e)
    /\ pcAsk' = "listed"
    /\ fetched' = <<>> /\ filtered' = <<>>
    /\ UNCHANGED emptied
    /\ UNCHANGED <<cleanVars, chunkVars, dedupeVars, synVars>>

\* a reset that leaves the store as it is
ResetStoreKeeps(coll) == coll

\* client.reset(): the store without any collection
ResetStore(coll) == <<>>

\* except Exception as e: raise HTTPException(500, f"reset failed: {type(e).__name__}: {e}")
ResetFailure(e) ==
    [status |-> 500, detail |-> [prefix |-> "reset failed", type |-> e.type, msg |-> e.msg]]

\* POST /reset
Reset ==
    /\ pcAsk = "idle"
    /\ req' = NoReq
    /\ \/ /\ calls' = <<"reset">>
          /\ raised' = NoError
          /\ collection' = ResetStore(collection)
          /\ resp' = [status |-> 200, body |-> [ok |-> TRUE, message |-> "Chroma store cleared."]]
          /\ emptied' = TRUE
       \/ \E e \in StoreErrors :
          /\ calls' = <<"reset">>
          /\ raised' = [call |-> "reset", type |-> e.type, msg |-> e.msg]
          /\ resp' = ResetFailure(e)
          /\ UNCHANGED <<collection, emptied>>
    /\ pcAsk' = "cleared"
    /\ fetched' = <<>> /\ filtered' = <<>>
    /\ UNCHANGED <<cleanVars, chunkVars, dedupeVars, synVars>>

\* ------------------------------------------------------------------
\* The /ask route, continued
\* ------------------------------------------------------------------
\* get_collection raises: the except clause of ask answers 500
AskCollectionFails(r) ==
    \E e \in StoreErrors :
        /\ calls' = <<"get_or_create_collection">>
        /\ raised' = [call |-> "get_or_create_collection", type |-> e.type, msg |-> e.msg]
        /\ resp' = AskFailure(e)
        /\ UNCHANGED collection
        /\ fetched' = <<>> /\ filtered' = <<>>

\* embed_query_bge raises
AskEmbedFails(r, coll, pre) ==
    \E e \in EmbedErrors :
        /\ calls' = pre \o <<"encode">>
        /\ raised' = [call |-> "encode", type |-> e.type, msg |-> e.msg]
        /\ resp' = AskFailure(e)
        /\ collection' = coll
        /\ fetched' = <<>> /\ filtered' = <<>>

\* col.query raises
AskQueryFails(r, coll, pre) ==
    \E e \in StoreErrors :
        /\ calls' = pre \o <<"encode", "query">>
        /\ raised' = [call |-> "query", type |-> e.type, msg |-> e.msg]
        /\ resp' = AskFailure(e)
        /\ collection' = coll
        /\ fetched' = <<>> /\ filtered' = <<>>

\* every collaborator answers
AskAnswers(r, coll, pre) ==
    \E raw \in QueryResults(coll, Max(r.top_k, MinFetch), Where(r.doc_id), Distances) :
        LET hs0 == BuildHits(raw)
            hs1 == DistanceFilter(hs0, r.max_distance)
            hs2 == TopK(hs1, r.top_k)
        IN /\ calls' = pre \o <<"encode", "query">>
           /\ raised' = NoError
           /\ fetched' = hs0
           /\ filtered' = hs1
           /\ resp' = AskBody(r.question, hs2)
           /\ collection' = coll

\* ask, after get_collection has returned the collection coll
AskWith(r, coll, pre) ==
    \/ AskEmbedFails(r, coll, pre)
    \/ AskQueryFails(r, coll, pre)
    \/ AskAnswers(r, coll, pre)

\* POST /ask.  get_collection either returns the collection, or meets a
\* KeyError, resets the store and creates the collection anew, or raises.
Ask ==
    /\ pcAsk = "idle"
    /\ \E r \in AskRequests :
        /\ req' = r
        /\ \/ AskWith(r, collection, <<"get_or_create_collection">>)
           \/ AskWith(r, <<>>, <<"get_or_create_collection", "reset",
                                 "get_or_create_collection">>)
           \/ AskCollectionFails(r)
    /\ pcAsk' = "responded"
    /\ UNCHANGED emptied
    /\ UNCHANGED <<cleanVars, chunkVars, dedupeVars, synVars>>

\* the response is sent; the server waits for the next request
Reply ==
    /\ pcAsk \in {"responded", "uploaded", "listed", "cleared"}
    /\ pcAsk' = "idle"
    /\ req' = NoReq /\ resp' = NoResp /\ calls' = <<>> /\ raised' = NoError
    /\ fetched' = <<>> /\ filtered' = <<>>
    /\ UNCHANGED <<collection, emptied>>
    /\ UNCHANGED <<cleanVars, chunkVars, dedupeVars, synVars>>

Next == UploadOf(UploadFiles) \/ Ask \/ ListDocs \/ Reset \/ Reply

Spec == Init /\ [][Next]_vars

\* the upload and reset routes alone, over files that include a long page
NextUpload == UploadOf(LongUploadFiles) \/ Reset \/ Reply

SpecUpload == Init /\ [][NextUpload]_vars

\* a successful answer has been given
Answered == pcAsk = "responded" /\ raised = NoError

\* C7: with max_distance supplied (0 included) the filter keeps exactly the
\* fetched hits of distance <= max_distance, in their order, so no hit of
\* results is farther; of fetched distances 0.2, 0.5, 0.9 and max_distance 0.6
\* exactly the first two pass.
AskDistanceFilter ==
    (Answered /\ req.max_distance # <<>>) =>
        LET md == req.max_distance[1]
            kept == { k \in 1..Len(fetched) : fetched[k].distance <= md }
        IN /\ Len(filtered) = Cardinality(kept)
           /\ \A k \in 1..Len(filtered) :
                  /\ filtered[k].distance <= md
                  /\ \E j \in kept :
                         /\ filtered[k] = fetched[j]
                         /\ Cardinality({ x \in kept : x < j }) = k - 1
           /\ \A k \in 1..Len(resp.body.results) : resp.body.results[k].distance <= md
           /\ ([k \in 1..Len(fetched) |-> fetched[k].distance] = <<2, 5, 9>> /\ md = 6)
                  => filtered = SubSeq(fetched, 1, 2)

\* C7 witness: fetched distances 0.2, 0.5, 0.9 against max_distance 0.6.
AskDistanceFilterWitness ==
    /\ Answered
    /\ req.max_distance = <<6>>
    /\ [k \in 1..Len(fetched) |-> fetched[k].distance] = <<2, 5, 9>>
    /\ Len(filtered) = 2

\* C8: for every ask request results is the de-duplicated hit list, nearest
\* first, cut to its first top_k hits: it never holds more than top_k hits.
AskTopK ==
    Answered =>
        LET survivors == dedupe_hits(filtered, DefaultHeadLen)
            n == IF req.top_k < 0 THEN 0
                 ELSE IF req.top_k < Len(survivors) THEN req.top_k
                 ELSE Len(survivors)
        IN /\ Len(resp.body.results) <= n
           /\ resp.body.results = SubSeq(survivors, 1, n)
           /\ \A k \in 1..(Len(resp.body.results) - 1) :
                  resp.body.results[k].distance <= resp.body.results[k + 1].distance

\* C9: when no hit remains (the store returns nothing, max_distance removes
\* every hit, or top_k is 0) ask answers without error, with answer "",
\* citations [] and results [].
AskNoHits ==
    (Answered /\ (fetched = <<>> \/ filtered = <<>> \/ req.top_k = 0)) =>
        /\ resp.status = 200
        /\ resp.body.answer = <<>>
        /\ resp.body.citations = <<>>
        /\ resp.body.results = <<>>

\* C9 witness: hits were fetched and max_distance 0 removed them all.
AskNoHitsWitness ==
    /\ Answered
    /\ Len(fetched) >= 2 /\ filtered = <<>>
    /\ req.max_distance = <<0>> /\ req.top_k = 5
    /\ resp.status = 200 /\ resp.body.results = <<>>

\* the number of times call c was made
Count(cs, c) == Cardinality({ k \in 1..Len(cs) : cs[k] = c })

\* C10: when the embedding call or the store query fails, the request ends in
\* a failure response carrying the error's type and message; the call is not
\* made again and no normal body is returned.
AskFailurePropagates ==
    (pcAsk = "responded" /\ raised.call \in {"encode", "query"}) =>
        /\ resp.status = 500
        /\ resp.detail.type = raised.type
        /\ resp.detail.msg = raised.msg
        /\ Count(calls, "encode") = 1
        /\ Count(calls, "query") <= 1
        /\ "body" \notin DOMAIN resp

\* C10 witness: the store query failed after the embedding succeeded.
AskFailureWitness ==
    /\ pcAsk = "responded"
    /\ raised.call = "query"
    /\ Len(collection) >= 1
    /\ resp.status = 500 /\ resp.detail.type = "ValueError"

\* C19: in a successful ask response every citation is the page and title of
\* a hit of results, the sentence it backs is a sentence of that hit's
\* normalized snippet (in the fallback case the whole normalized snippet of
\* the first hit), and citations is not empty when results is not.
AskCitationsBacked ==
    Answered =>
        LET rs == resp.body.results
            cit == resp.body.citations
            p == IF rs = <<>> THEN <<>>
                 ELSE Picked(req.question, rs, DefaultMaxSentences)
        IN /\ rs # <<>> => Len(cit) >= 1
           /\ Len(cit) = Len(p)
           /\ resp.body.answer = Join([a \in 1..Len(p) |-> p[a].sent])
           /\ \A a \in 1..Len(cit) :
                 \E h \in 1..Len(rs) :
                    /\ cit[a] = [page |-> rs[h].page, title |-> rs[h].title]
                    /\ p[a].page = rs[h].page /\ p[a].title = rs[h].title
                    /\ \/ p[a].sent \in SentencesOf(rs[h])
                       \/ /\ Len(p) = 1 /\ h = 1
                          /\ SynCandidatesOf(req.question, rs) = <<>>
                          /\ p[a].sent = clean_text(rs[h].snippet)

\* C19 witness: an answer of two sentences or more that cites two pages.
AskCitationsWitness ==
    /\ Answered
    /\ Len(resp.body.results) >= 2
    /\ Len(resp.body.citations) >= 2
    /\ \E a, b \in 1..Len(resp.body.citations) :
          resp.body.citations[a].page # resp.body.citations[b].page

\* every page of the upload is empty after normalization
AllPagesEmpty(pages) ==
    \A k \in 1..Len(pages) : clean_text(PageText(pages[k])) = <<>>

\* C11: an upload of a PDF whose pages are all empty after normalization, its
\* file having been read, is answered 400; every failure of a collaborator
\* during an upload is answered 500 and no answer of 400 comes from one; the
\* upload of such a PDF leaves the vector store as it was.
UploadNoTextIsClientError ==
    /\ [](pcAsk = "uploaded" =>
            /\ (raised = NoError /\ IsPdf(req.filename) /\ AllPagesEmpty(req.pages))
                  => (resp.status = 400 /\ "body" \notin DOMAIN resp)
            /\ raised # NoError => resp.status = 500
            /\ resp.status = 400 => raised = NoError)
    /\ [][(pcAsk = "idle" /\ pcAsk' = "uploaded"
              /\ IsPdf(req'.filename) /\ AllPagesEmpty(req'.pages))
             => collection' = collection]_vars

\* C11 witness: the blank PDF has been refused with 400 while the store
\* holds passages.
UploadNoTextWitness ==
    /\ pcAsk = "uploaded"
    /\ req = PdfBlank
    /\ resp.status = 400
    /\ raised = NoError
    /\ Len(collection) >= 1

\* C17: a successful upload appends to the store, in page order, one passage
\* per chunk of every page whose normalized text is not empty, each with a
\* non-empty text and the doc_id, title and page of its page, nothing for the
\* other pages, and reports their number as indexed_chunks.
UploadIndexesEveryChunk ==
    /\ []((pcAsk = "uploaded" /\ resp.status = 200) =>
            LET cnt == resp.body.indexed_chunks
                added == SubSeq(collection, Len(collection) - cnt + 1, Len(collection))
            IN /\ cnt <= Len(collection)
               /\ \A n \in 1..Len(req.pages) :
                     LET txt == clean_text(PageText(req.pages[n]))
                         cs == IF txt = <<>> THEN <<>> ELSE chunk_text(txt, 220, 60)
                     IN SelectSeq(added, LAMBDA x : x.page = n) =
                            [j \in 1..Len(cs) |->
                                [doc_id |-> SplitExt(req.filename),
                                 title |-> req.filename,
                                 page |-> n, text |-> cs[j]]]
               /\ \A k \in 1..Len(added) :
                     /\ added[k].page \in 1..Len(req.pages)
                     /\ added[k].text # <<>>
                     /\ k < Len(added) => added[k].page <= added[k + 1].page)
    /\ [][(pcAsk = "idle" /\ pcAsk' = "uploaded" /\ resp'.status = 200) =>
            LET base == IF \E k \in 1..Len(calls') : calls'[k] = "reset"
                        THEN <<>> ELSE collection
            IN /\ Len(collection') = Len(base) + resp'.body.indexed_chunks
               /\ SubSeq(collection', 1, Len(base)) = base]_vars

\* C17 witness: the PDF with a first page of two chunks, an empty second page
\* and a third page of one chunk has been indexed as three passages.
UploadIndexesWitness ==
    /\ pcAsk = "uploaded"
    /\ req = PdfLong
    /\ resp.status = 200
    /\ resp.body.indexed_chunks = 3
    /\ Len(collection) = 3
    /\ collection[1].page = 1 /\ collection[2].page = 1 /\ collection[3].page = 3

\* C20: after a successful reset and until the next successful upload, every
\* ask that is answered returns results [], answer "" and citations [], and
\* list_docs returns no document, failed uploads in between included.
EmptyAfterReset ==
    emptied =>
        /\ Answered =>
              /\ resp.body.results = <<>>
              /\ resp.body.answer = <<>>
              /\ resp.body.citations = <<>>
        /\ (pcAsk = "listed" /\ resp.status = 200) => resp.body.documents = <<>>

\* C20 witness: after a reset, an ask for five hits is answered with nothing.
EmptyAfterResetWitness ==
    /\ emptied
    /\ Answered
    /\ req.top_k = 5
    /\ resp.status = 200
    /\ resp.body.results = <<>>

\* ------------------------------------------------------------------
\* clean_text applied to a text, then to its own result
\* ------------------------------------------------------------------
CleanFragments ==
    { Cid1, <<"(", "c", "i", "d">>, <<":", "2", ")">>,
      <<" ">>, <<"\t">>, <<".">>, <<",">>, <<"a">> }

CleanInputs == { Flatten(fs) : fs \in SeqsUpTo(CleanFragments, MaxFrags) }

InitClean ==
    /\ t \in CleanInputs
    /\ cleaned = <<>> /\ recleaned = <<>> /\ pcClean = "input"
    /\ ChunkIdle /\ DedupeIdle /\ SynIdle /\ AskIdle

CleanOnce ==
    /\ pcClean = "input"
    /\ cleaned' = clean_text(t)
    /\ pcClean' = "once"
    /\ UNCHANGED <<t, recleaned>>
    /\ UNCHANGED <<chunkVars, dedupeVars, synVars, askVars>>

CleanTwice ==
    /\ pcClean = "once"
    /\ recleaned' = clean_text(cleaned)
    /\ pcClean' = "twice"
    /\ UNCHANGED <<t, cleaned>>
    /\ UNCHANGED <<chunkVars, dedupeVars, synVars, askVars>>

NextClean == CleanOnce \/ CleanTwice

SpecClean == InitClean /\ [][NextClean]_vars

\* C1: clean_text is idempotent: cleaning an already cleaned text returns it
\* unchanged, for every input text.
CleanTextIdempotent == pcClean = "twice" => recleaned = cleaned

====
